---------------------------- MODULE Spec2Model ----------------------------
(***************************************************************************)
(* A model of a-h/terminator: the selection of the instances of an         *)
(* autoscaling group to terminate.                                         *)
(*                                                                         *)
(* Two generations of the program are modelled, told apart by `mode`:      *)
(*   "canonical"  Terminate (terminator.go) with                           *)
(*                AutoScalingGroup.GetTargetInstances, the variant with    *)
(*                the abstention check;                                    *)
(*   "main"       terminate (main.go), in rolling mode                     *)
(*                (onlyTerminateOldVersions = FALSE) and in old-versions   *)
(*                mode (onlyTerminateOldVersions = TRUE).                  *)
(* One run of Spec works on one group: the loops over the groups treat     *)
(* every group alone, only the list of terminated instances is carried     *)
(* over.  SpecTerminate runs the loop of Terminate over several groups.    *)
(* SpecFilter, SpecSort and SpecOldest apply filterByName, sort.Sort and   *)
(* getOldestVersions to inputs drawn from bounded sets.                    *)
(*                                                                         *)
(* A semantic version is a triple <<major, minor, patch>>, compared        *)
(* field by field as blang/semver does; a fourth field is a numeric        *)
(* pre-release tag, <<0, 0, 0, 1>> is 0.0.0-1.                             *)
(* A launch time is a natural number, a smaller one is earlier.            *)
(***************************************************************************)
EXTENDS Integers, Sequences, FiniteSets, TLC

VARIABLES
    mode,                 \* which program runs: "canonical" or "main"
    group,                \* the AutoScalingGroup: Name, Instances, InstanceDetails
    cloud,                \* what GetDetail answers for Instances[i] (main.go)
    p,                    \* the parameters
    pc,                   \* "start" before the group is worked on, "done" after
    targets,              \* the IDs selected for the group
    branch,               \* the return statement the selection left by
    mismatched,           \* mismatchedInstances of GetTargetInstances
    calls,                \* the calls of cloud.TerminateInstances: [ids, err]
    terminatedInstances,  \* the list the program returns
    groups,               \* the groups Terminate loops over (SpecTerminate)
    gi,                   \* the position of the loop in groups
    groupTargets,         \* the targets of the groups worked on so far
    arg,                  \* the arguments of a function applied on its own
    ret                   \* what that function returned

loopVars == <<groups, gi, groupTargets>>

fnVars == <<arg, ret>>

vars == <<mode, group, cloud, p, pc, targets, branch, mismatched, calls,
          terminatedInstances, groups, gi, groupTargets, arg, ret>>

-----------------------------------------------------------------------------
(* Bounds of the model. *)

MaxInstances == 3

MaxMin == 3

MaxTime == 1

MaxGroups == 2

MaxGroupInstances == 2

MaxFilter == 2

MaxDetails == 3

MaxCap == 2
MaxValueLen == 3
MaxSets == 2

(* Instance IDs: the instance at position i of a group has the ID IDs[i],  *)
(* so the IDs of a group are unique.                                       *)
IDs == <<"A", "B", "C", "D", "E", "F", "G", "H", "I", "J", "K", "L">>

(* The versions the instances and the canonical flag are drawn from. *)
V000Pre == <<0, 0, 0, 1>>
V099 == <<0, 9, 9>>
V100 == <<1, 0, 0>>
V110 == <<1, 1, 0>>

DetailVersions == {V100, V110}

ProbeVersions == {V000Pre, V100, V110}

(* The zero value semver.Version{}. *)
ZeroVersion == <<0, 0, 0>>

(* The (HealthStatus, LifecycleState) pairs of the instances of a run: an   *)
(* instance in service and one out of service, as in createTestData.       *)
InstanceStates ==
    { <<"Healthy", "InService">>,
      <<"Healthy", "OutOfService">> }

-----------------------------------------------------------------------------
(* Library functions. *)

(* strings.ToLower on the status words. *)
ToLower(s) ==
    CASE s = "Healthy"      -> "healthy"
      [] s = "HEALTHY"      -> "healthy"
      [] s = "Unhealthy"    -> "unhealthy"
      [] s = "InService"    -> "inservice"
      [] s = "INSERVICE"    -> "inservice"
      [] s = "OutOfService" -> "outofservice"
      [] s = "Web"          -> "web"
      [] s = "WEB"          -> "web"
      [] OTHER              -> s

(* strings.EqualFold: equality ignoring case. *)
EqualFold(s, t) == ToLower(s) = ToLower(t)

(* semver.Version.Compare: -1, 0 or 1, major first, then minor, then       *)
(* patch; of two versions with the same numbers the one with a pre-release *)
(* tag is the lower, and two tags compare as numbers.                      *)
HasPre(v) == Len(v) > 3

Compare(v, o) ==
    IF v[1] # o[1] THEN (IF v[1] > o[1] THEN 1 ELSE -1)
    ELSE IF v[2] # o[2] THEN (IF v[2] > o[2] THEN 1 ELSE -1)
    ELSE IF v[3] # o[3] THEN (IF v[3] > o[3] THEN 1 ELSE -1)
    ELSE IF ~HasPre(v) /\ ~HasPre(o) THEN 0
    ELSE IF ~HasPre(v) THEN 1
    ELSE IF ~HasPre(o) THEN -1
    ELSE IF v[4] # o[4] THEN (IF v[4] > o[4] THEN 1 ELSE -1)
    ELSE 0

LT(v, o) == Compare(v, o) = -1

GT(v, o) == Compare(v, o) = 1

(* s[from:] of Go, `from` counted from 0. *)
SliceFrom(s, from) == SubSeq(s, from + 1, Len(s))

(* s[:to] of Go. *)
SliceTo(s, to) == SubSeq(s, 1, to)

(* The set of the elements of a sequence. *)
Range(s) == { s[i] : i \in DOMAIN s }

(* Whether no element occurs twice. *)
NoDuplicates(s) == \A i, j \in DOMAIN s : i # j => s[i] # s[j]

-----------------------------------------------------------------------------
(* package integration *)

(* Instance.IsHealthy *)
IsHealthy_StatusOnly(instance) == EqualFold(instance.HealthStatus, "Healthy")

IsHealthy(instance) ==
    /\ EqualFold(instance.HealthStatus, "Healthy")
    /\ EqualFold(instance.LifecycleState, "InService")

IsOther_Always(instance) == TRUE

IsOther(instance) == ~IsHealthy(instance)

(* categoriseInstances: the healthy instances and the others, each in the  *)
(* order of the input.                                                     *)
categoriseInstances(instances) ==
    [ healthy |-> SelectSeq(instances, IsHealthy),
      other   |-> SelectSeq(instances, IsOther) ]

getInstanceIDs(instances) == [ i \in 1..Len(instances) |-> instances[i].ID ]

RECURSIVE removeDuplicatesFrom(_, _, _)
removeDuplicatesFrom(elements, encountered, result) ==
    IF elements = <<>> THEN result
    ELSE IF Head(elements) \in encountered
         THEN removeDuplicatesFrom(Tail(elements), encountered, result)
         ELSE removeDuplicatesFrom(Tail(elements),
                                   encountered \cup {Head(elements)},
                                   Append(result, Head(elements)))

removeDuplicates_Identity(elements) == elements

removeDuplicates(elements) == removeDuplicatesFrom(elements, {}, <<>>)

(* The safety gate of GetTargetInstances. *)
NotEnoughHealthy(healthy, minimumInstanceCount) ==
    Len(healthy) <= minimumInstanceCount

(* The abstention check of GetTargetInstances. *)
Abstains_And(healthy, unhealthy, instanceDetails) ==
    Len(unhealthy) > 0 /\ Len(healthy) # Len(instanceDetails)

Abstains_DetailsOnly(healthy, unhealthy, instanceDetails) ==
    Len(healthy) # Len(instanceDetails)

Abstains(healthy, unhealthy, instanceDetails) ==
    Len(unhealthy) > 0 \/ Len(healthy) # Len(instanceDetails)

(* The test of the loop over group.InstanceDetails. *)
IsMismatch_LTE(versionNumber, canonical) ==
    Compare(versionNumber, canonical) <= 0 \/ GT(versionNumber, canonical)

IsMismatch(versionNumber, canonical) ==
    LT(versionNumber, canonical) \/ GT(versionNumber, canonical)

(* The loop over group.InstanceDetails: the detail at index i puts the ID  *)
(* of the instance at index i on the list.                                 *)
RECURSIVE mismatchedInstancesUpTo(_, _, _)
mismatchedInstancesUpTo(g, canonical, n) ==
    IF n = 0 THEN <<>>
    ELSE LET rest == mismatchedInstancesUpTo(g, canonical, n - 1)
         IN  IF IsMismatch(g.InstanceDetails[n].VersionNumber, canonical)
             THEN Append(rest, g.Instances[n].ID)
             ELSE rest

mismatchedInstances(g, canonical) ==
    mismatchedInstancesUpTo(g, canonical, Len(g.InstanceDetails))

maximum_PlusOne(g, minimumInstanceCount) ==
    Len(g.Instances) - minimumInstanceCount + 1

maximum(g, minimumInstanceCount) == Len(g.Instances) - minimumInstanceCount

(* The last two return statements: at most `most` of the IDs. *)
capTo_Identity(instanceIdsToTerminate, most) == instanceIdsToTerminate

capTo_Tail(instanceIdsToTerminate, most) ==
    IF Len(instanceIdsToTerminate) <= most
    THEN instanceIdsToTerminate
    ELSE SubSeq(instanceIdsToTerminate,
                Len(instanceIdsToTerminate) - most + 1,
                Len(instanceIdsToTerminate))

capTo(instanceIdsToTerminate, most) ==
    IF Len(instanceIdsToTerminate) <= most
    THEN instanceIdsToTerminate
    ELSE SliceTo(instanceIdsToTerminate, most)

(* AutoScalingGroup.GetTargetInstances, the variant with the abstention    *)
(* check: the list it returns, the return statement it leaves by and its   *)
(* local mismatchedInstances.                                              *)
GetTargetInstances(g, canonical, minimumInstanceCount) ==
    LET c         == categoriseInstances(g.Instances)
        healthy   == c.healthy
        unhealthy == c.other
    IN  IF NotEnoughHealthy(healthy, minimumInstanceCount)
        THEN [ids |-> <<>>, branch |-> "notEnoughHealthy", mismatched |-> <<>>]
        ELSE IF Abstains(healthy, unhealthy, g.InstanceDetails)
        THEN [ids |-> <<>>, branch |-> "abstained", mismatched |-> <<>>]
        ELSE LET mm == mismatchedInstances(g, canonical)
                 instanceIdsToTerminate ==
                     removeDuplicates(
                         mm \o getInstanceIDs(
                                   SliceFrom(healthy, minimumInstanceCount)))
             IN  IF Len(mm) = 0
                 THEN [ids |-> <<>>, branch |-> "noMismatch", mismatched |-> mm]
                 ELSE [ids        |-> capTo(instanceIdsToTerminate,
                                            maximum(g, minimumInstanceCount)),
                       branch     |-> "selected",
                       mismatched |-> mm]

(* AutoScalingGroup.GetTargetInstances, the variant without the abstention *)
(* check: with no mismatch it returns the unhealthy instances, cut to      *)
(* maximum.                                                                *)
GetTargetInstances004(g, canonical, minimumInstanceCount) ==
    LET c         == categoriseInstances(g.Instances)
        healthy   == c.healthy
        unhealthy == c.other
    IN  IF NotEnoughHealthy(healthy, minimumInstanceCount)
        THEN [ids |-> <<>>, branch |-> "notEnoughHealthy", mismatched |-> <<>>]
        ELSE LET mm == mismatchedInstances(g, canonical)
                 instanceIdsToTerminate ==
                     removeDuplicates(
                         mm \o getInstanceIDs(
                                   SliceFrom(healthy, minimumInstanceCount)))
             IN  IF Len(mm) = 0
                 THEN [ids        |-> capTo(getInstanceIDs(unhealthy),
                                            maximum(g, minimumInstanceCount)),
                       branch     |-> "noMismatch",
                       mismatched |-> mm]
                 ELSE [ids        |-> capTo(instanceIdsToTerminate,
                                            maximum(g, minimumInstanceCount)),
                       branch     |-> "selected",
                       mismatched |-> mm]

-----------------------------------------------------------------------------
(* package main, terminator.go *)

(* The body of the loop of Terminate for the one group: the selection, the *)
(* dry-run gate and the call of cloud.TerminateInstances, which answers    *)
(* with an error or without one.                                           *)
(* The two `continue` statements before the call: nothing to terminate,   *)
(* or a dry run.                                                           *)
noAction_IgnoresDryRun(ids, isDryRun) == Len(ids) <= 0

noAction(ids, isDryRun) == Len(ids) <= 0 \/ isDryRun

(* What the loop does with the answer of cloud.TerminateInstances. *)
afterCall_AlwaysAppends(terminated, ids, err) == terminated \o ids

afterCall(terminated, ids, err) ==
    IF err THEN terminated ELSE terminated \o ids

Terminate ==
    /\ pc = "start"
    /\ mode = "canonical"
    /\ LET r == GetTargetInstances(group, p.canonical, p.minimumInstanceCount)
       IN  /\ targets' = r.ids
           /\ branch' = r.branch
           /\ mismatched' = r.mismatched
           /\ IF noAction(r.ids, p.isDryRun)
              THEN UNCHANGED <<calls, terminatedInstances>>
              ELSE \E err \in BOOLEAN :
                      /\ calls' = Append(calls, [ids |-> r.ids, err |-> err])
                      /\ terminatedInstances' =
                             afterCall(terminatedInstances, r.ids, err)
    /\ pc' = "done"
    /\ UNCHANGED <<mode, group, cloud, p, loopVars, fnVars>>

(* semver.Make on the canonical flag: the flag is held as the version it   *)
(* reads as, and Unparsable is a flag that reads as none.                  *)
Unparsable == <<>>

SemverMake_NeverFails(flag) ==
    [version |-> IF flag = Unparsable THEN ZeroVersion ELSE flag, err |-> FALSE]

SemverMake(flag) == [version |-> flag, err |-> flag = Unparsable]

(* Terminate up to its loop: the groups are fetched and the canonical flag *)
(* is parsed; either can fail, and then Terminate returns nil.             *)
TerminateStart ==
    /\ pc = "begin"
    /\ \E describeErr \in BOOLEAN :
          IF describeErr \/ SemverMake(p.canonical).err
          THEN pc' = "returned" /\ gi' = 0
          ELSE pc' = "loop" /\ gi' = 1
    /\ UNCHANGED <<mode, group, cloud, p, targets, branch, mismatched, calls,
                   terminatedInstances, groups, groupTargets, fnVars>>

(* One turn of the loop of Terminate, for the group at gi. *)
TerminateGroup ==
    /\ pc = "loop"
    /\ gi <= Len(groups)
    /\ LET g == groups[gi]
           r == GetTargetInstances(g, SemverMake(p.canonical).version,
                                   p.minimumInstanceCount)
       IN  /\ groupTargets' = Append(groupTargets, r.ids)
           /\ IF noAction(r.ids, p.isDryRun)
              THEN UNCHANGED <<calls, terminatedInstances>>
              ELSE \E err \in BOOLEAN :
                      /\ calls' = Append(calls,
                                     [ids |-> r.ids, err |-> err, g |-> gi])
                      /\ terminatedInstances' =
                             afterCall(terminatedInstances, r.ids, err)
    /\ gi' = gi + 1
    /\ UNCHANGED <<mode, group, cloud, p, pc, targets, branch, mismatched,
                   groups, fnVars>>

(* The loop is over: Terminate returns terminatedInstances. *)
TerminateReturn ==
    /\ pc = "loop"
    /\ gi > Len(groups)
    /\ pc' = "returned"
    /\ UNCHANGED <<mode, group, cloud, p, targets, branch, mismatched, calls,
                   terminatedInstances, loopVars, fnVars>>

-----------------------------------------------------------------------------
(* package main, main.go *)

(* filterByName: the test of the inner loop, and the two loops. A group is *)
(* appended once for every entry of namesToInclude that matches its name.  *)
includes_Exact(g, n) == g.Name = n

includes(g, n) == EqualFold(g.Name, n)

RECURSIVE filterNames(_, _)
filterNames(g, namesToInclude) ==
    IF namesToInclude = <<>> THEN <<>>
    ELSE (IF includes(g, Head(namesToInclude)) THEN <<g>> ELSE <<>>)
         \o filterNames(g, Tail(namesToInclude))

RECURSIVE filterGroups(_, _)
filterGroups(grps, namesToInclude) ==
    IF grps = <<>> THEN <<>>
    ELSE filterNames(Head(grps), namesToInclude)
         \o filterGroups(Tail(grps), namesToInclude)

filterByName(grps, namesToInclude) ==
    IF Len(namesToInclude) = 0 THEN grps
    ELSE filterGroups(grps, namesToInclude)

isHealthy(instance) ==
    /\ EqualFold(instance.HealthStatus, "Healthy")
    /\ EqualFold(instance.LifecycleState, "InService")

isOther(instance) == ~isHealthy(instance)

mainCategoriseInstances(instances) ==
    [ healthy |-> SelectSeq(instances, isHealthy),
      other   |-> SelectSeq(instances, isOther) ]

mainGetInstanceIDs(instances) == [ i \in 1..Len(instances) |-> instances[i].ID ]

(* InstanceDetails.Less and InstanceDetails.Swap, indices counted from 1. *)
Less(slice, i, j) ==
    \/ LT(slice[i].VersionNumber, slice[j].VersionNumber)
    \/ slice[i].LaunchTime < slice[j].LaunchTime

Swap(slice, i, j) == [slice EXCEPT ![i] = slice[j], ![j] = slice[i]]

(* sort.Sort on a slice of fewer than 12 elements is an insertion sort:    *)
(*   for i := a + 1; i < b; i++ {                                          *)
(*       for j := i; j > a && data.Less(j, j-1); j-- { data.Swap(j, j-1) } *)
(*   }                                                                     *)
RECURSIVE insertionSortInner(_, _)
insertionSortInner(data, j) ==
    IF j > 1 /\ Less(data, j, j - 1)
    THEN insertionSortInner(Swap(data, j, j - 1), j - 1)
    ELSE data

RECURSIVE insertionSortFrom(_, _)
insertionSortFrom(data, i) ==
    IF i > Len(data) THEN data
    ELSE insertionSortFrom(insertionSortInner(data, i), i + 1)

Sort(data) == insertionSortFrom(data, 2)

(* cloud.GetDetail: the answer of the cloud for the instance with this ID. *)
GetDetail(instanceID) ==
    LET i == CHOOSE k \in DOMAIN group.Instances :
                 group.Instances[k].ID = instanceID
    IN  [ err    |-> cloud[i].err,
          detail |-> [ ID            |-> instanceID,
                       VersionNumber |-> cloud[i].VersionNumber,
                       LaunchTime    |-> cloud[i].LaunchTime ] ]

(* getDetails: the details of all the instances, sorted, or the first error. *)
RECURSIVE getDetailsLoop(_, _)
getDetailsLoop(instances, details) ==
    IF instances = <<>> THEN [details |-> Sort(details), err |-> FALSE]
    ELSE LET r == GetDetail(Head(instances).ID)
         IN  IF r.err THEN [details |-> <<>>, err |-> TRUE]
             ELSE getDetailsLoop(Tail(instances), Append(details, r.detail))

getDetails(instances) == getDetailsLoop(instances, <<>>)

(* A slice expression with an index below zero panics. *)
Panic == <<"panic: slice bounds out of range">>

takeAtMost_All(details, most) == details

takeAtMost(details, most) ==
    IF Len(details) <= most THEN details
    ELSE IF most < 0 THEN Panic
    ELSE SliceTo(details, most)

RECURSIVE highestVersionOf(_, _)
highestVersionOf(details, highestVersion) ==
    IF details = <<>> THEN highestVersion
    ELSE highestVersionOf(Tail(details),
             IF GT(Head(details).VersionNumber, highestVersion)
             THEN Head(details).VersionNumber ELSE highestVersion)

RECURSIVE lowestVersionOf(_, _)
lowestVersionOf(details, lowestVersion) ==
    IF details = <<>> THEN lowestVersion
    ELSE lowestVersionOf(Tail(details),
             IF LT(Head(details).VersionNumber, lowestVersion)
             THEN Head(details).VersionNumber ELSE lowestVersion)

getOldestVersions(details, maximumOldVersions) ==
    LET highestVersion == highestVersionOf(details, ZeroVersion)
        IsOld(instance) == LT(instance.VersionNumber, highestVersion)
        oldInstances   == SelectSeq(details, IsOld)
    IN  [ lowestVersion  |-> lowestVersionOf(details, highestVersion),
          highestVersion |-> highestVersion,
          filtered       |-> takeAtMost(Sort(oldInstances), maximumOldVersions) ]

getOldestIDs(instances, maximumInstances) ==
    LET d == getDetails(instances)
    IN  IF d.err
        THEN [ lowestVersion |-> ZeroVersion, highestVersion |-> ZeroVersion,
               ids |-> <<>>, err |-> TRUE ]
        ELSE LET o == getOldestVersions(d.details, maximumInstances)
             IN  [ lowestVersion  |-> o.lowestVersion,
                   highestVersion |-> o.highestVersion,
                   ids |-> [ i \in 1..Len(o.filtered) |-> o.filtered[i].ID ],
                   err |-> FALSE ]

(* The test `len(healthy) > p.minimumInstanceCount` of terminate. *)
enoughHealthy_OrEqual(healthy, minimumInstanceCount) ==
    Len(healthy) >= minimumInstanceCount

enoughHealthy(healthy, minimumInstanceCount) ==
    Len(healthy) > minimumInstanceCount

(* The rolling branch of terminate. *)
rollingIDs_UnhealthyFirst(healthy, unhealthy, minimumInstanceCount) ==
    mainGetInstanceIDs(unhealthy \o SliceFrom(healthy, minimumInstanceCount))

rollingIDs(healthy, unhealthy, minimumInstanceCount) ==
    mainGetInstanceIDs(SliceFrom(healthy, minimumInstanceCount) \o unhealthy)

(* The body of the loop of terminate for the one group. *)
terminate ==
    /\ pc = "start"
    /\ mode = "main"
    /\ LET c         == mainCategoriseInstances(group.Instances)
           healthy   == c.healthy
           unhealthy == c.other
       IN  IF enoughHealthy(healthy, p.minimumInstanceCount)
           THEN LET instanceIdsToTerminate ==
                        IF p.onlyTerminateOldVersions
                        THEN getOldestIDs(healthy,
                                 Len(healthy) - p.minimumInstanceCount).ids
                        ELSE rollingIDs(healthy, unhealthy,
                                        p.minimumInstanceCount)
                IN  /\ targets' = instanceIdsToTerminate
                    /\ branch' = IF p.onlyTerminateOldVersions
                                 THEN "oldVersions" ELSE "rolling"
                    /\ IF p.isDryRun
                       THEN UNCHANGED <<calls, terminatedInstances>>
                       ELSE \E err \in BOOLEAN :
                               /\ terminatedInstances' =
                                      terminatedInstances \o instanceIdsToTerminate
                               /\ calls' = Append(calls,
                                      [ids |-> instanceIdsToTerminate, err |-> err])
           ELSE /\ targets' = <<>>
                /\ branch' = "notEnoughHealthy"
                /\ UNCHANGED <<calls, terminatedInstances>>
    /\ pc' = "done"
    /\ UNCHANGED <<mode, group, cloud, p, mismatched, loopVars, fnVars>>

-----------------------------------------------------------------------------
(* The runs. *)

(* The groups of n instances. *)
InstancesOfLen(n) ==
    { [ i \in 1..n |-> [ ID             |-> IDs[i],
                         HealthStatus   |-> st[i][1],
                         LifecycleState |-> st[i][2] ] ] :
      st \in [1..n -> InstanceStates] }

(* The version details of a group of n instances: at most one detail for   *)
(* an instance, in any order.                                              *)
DetailsOfLen(n, k) ==
    { d \in [1..k -> [ ID : { IDs[i] : i \in 1..n },
                       VersionNumber : DetailVersions,
                       LaunchTime : {0} ]] :
      \A i, j \in 1..k : i # j => d[i].ID # d[j].ID }

DetailsFor(n) == UNION { DetailsOfLen(n, k) : k \in 0..n }

(* What the cloud answers to GetDetail: only healthy instances are asked. *)
NoAnswer == [err |-> TRUE, VersionNumber |-> ZeroVersion, LaunchTime |-> 0]

Answers ==
    {NoAnswer} \cup [ err : {FALSE}, VersionNumber : ProbeVersions,
                      LaunchTime : 0..MaxTime ]

CloudsFor(instances, old) ==
    { c \in [1..Len(instances) -> Answers] :
        \A i \in 1..Len(instances) :
            (~old \/ ~isHealthy(instances[i])) => c[i] = NoAnswer }

(* The variables a specification does not use. *)
NoLoop == groups = <<>> /\ gi = 0 /\ groupTargets = <<>>

NoFn == arg = <<>> /\ ret = <<>>

Init ==
    /\ pc = "start"
    /\ targets = <<>>
    /\ branch = "none"
    /\ mismatched = <<>>
    /\ calls = <<>>
    /\ terminatedInstances = <<>>
    /\ NoLoop
    /\ NoFn
    /\ \E n \in 0..MaxInstances, min \in 0..MaxMin, dry \in BOOLEAN :
         \E instances \in InstancesOfLen(n) :
            \/ /\ mode = "canonical"
               /\ cloud = [ i \in 1..n |-> NoAnswer ]
               /\ \E d \in DetailsFor(n), canonical \in DetailVersions :
                     /\ group = [ Name |-> "Group1", Instances |-> instances,
                                  InstanceDetails |-> d ]
                     /\ p = [ minimumInstanceCount     |-> min,
                              isDryRun                 |-> dry,
                              canonical                |-> canonical,
                              onlyTerminateOldVersions |-> FALSE ]
            \/ /\ mode = "main"
               /\ group = [ Name |-> "Group1", Instances |-> instances,
                            InstanceDetails |-> <<>> ]
               /\ \E old \in BOOLEAN :
                     /\ cloud \in CloudsFor(instances, old)
                     /\ p = [ minimumInstanceCount     |-> min,
                              isDryRun                 |-> dry,
                              canonical                |-> V100,
                              onlyTerminateOldVersions |-> old ]

Next == Terminate \/ terminate

Spec == Init /\ [][Next]_vars

-----------------------------------------------------------------------------
(* The runs of Terminate over several groups. *)

(* The group at position k of the list: n healthy instances with IDs of    *)
(* their own and a version detail for each, in the order of the instances. *)
GroupAt(k, n, versions) ==
    [ Name      |-> IDs[k],
      Instances |->
          [ i \in 1..n |-> [ ID             |-> IDs[(k - 1) * MaxGroupInstances + i],
                             HealthStatus   |-> "Healthy",
                             LifecycleState |-> "InService" ] ],
      InstanceDetails |->
          [ i \in 1..n |-> [ ID            |-> IDs[(k - 1) * MaxGroupInstances + i],
                             VersionNumber |-> versions[i],
                             LaunchTime    |-> 0 ] ] ]

GroupsAt(k) ==
    UNION { { GroupAt(k, n, versions) : versions \in [1..n -> DetailVersions] } :
            n \in 0..MaxGroupInstances }

GroupLists(most) ==
    UNION { { gs \in [1..len -> UNION { GroupsAt(k) : k \in 1..len }] :
                \A k \in 1..len : gs[k] \in GroupsAt(k) } :
            len \in 0..most }

InitTerminate ==
    /\ mode = "canonical"
    /\ pc = "begin"
    /\ group = <<>>
    /\ cloud = <<>>
    /\ targets = <<>>
    /\ branch = "none"
    /\ mismatched = <<>>
    /\ calls = <<>>
    /\ terminatedInstances = <<>>
    /\ gi = 0
    /\ groupTargets = <<>>
    /\ NoFn
    /\ groups \in GroupLists(MaxGroups)
    /\ \E min \in {0, 1}, dry \in BOOLEAN,
          canonical \in DetailVersions \cup {Unparsable} :
          p = [ minimumInstanceCount     |-> min,
                isDryRun                 |-> dry,
                canonical                |-> canonical,
                onlyTerminateOldVersions |-> FALSE ]

NextTerminate == TerminateStart \/ TerminateGroup \/ TerminateReturn

SpecTerminate == InitTerminate /\ [][NextTerminate]_vars

-----------------------------------------------------------------------------
(* What the properties speak of. *)

Done == pc = "done"

InstanceIDs == { group.Instances[i].ID : i \in DOMAIN group.Instances }

HealthyIDs ==
    { group.Instances[i].ID :
        i \in { k \in DOMAIN group.Instances : IsHealthy(group.Instances[k]) } }

UnhealthyIDs == InstanceIDs \ HealthyIDs

(* The healthy instances that a list of IDs leaves alone. *)
HealthyLeftBy(ids) == HealthyIDs \ Range(ids)

(* The IDs handed to cloud.TerminateInstances. *)
PassedIDs == UNION { Range(calls[i].ids) : i \in DOMAIN calls }

(* The k-th healthy (unhealthy) instance of the group, in the group's order. *)
NthID(k, wantHealthy) ==
    LET at == CHOOSE i \in DOMAIN group.Instances :
                /\ IsHealthy(group.Instances[i]) = wantHealthy
                /\ Cardinality({ j \in 1..i :
                       IsHealthy(group.Instances[j]) = wantHealthy }) = k
    IN  group.Instances[at].ID

(* The health of the instances, in the group's order. *)
HealthPattern == [ i \in DOMAIN group.Instances |-> IsHealthy(group.Instances[i]) ]

(* The version details as <<ID, version>> pairs, in their order. *)
DetailPairs ==
    [ i \in DOMAIN group.InstanceDetails |->
        <<group.InstanceDetails[i].ID, group.InstanceDetails[i].VersionNumber>> ]

-----------------------------------------------------------------------------
(* C1: GetTargetInstances never lowers the healthy count below the floor:  *)
(* if the group has at least minimumInstanceCount healthy instances, at    *)
(* least that many healthy instances are not in the returned list, and if  *)
(* it has fewer, no healthy instance is returned.                          *)
C1_FloorKept ==
    (mode = "canonical" /\ Done) =>
        IF Cardinality(HealthyIDs) >= p.minimumInstanceCount
        THEN Cardinality(HealthyLeftBy(targets)) >= p.minimumInstanceCount
        ELSE Range(targets) \cap HealthyIDs = {}

(* The cap cut the candidates: exactly the floor is left. *)
C1_Witness ==
    /\ mode = "canonical" /\ Done /\ branch = "selected"
    /\ p.minimumInstanceCount >= 1
    /\ Cardinality(HealthyLeftBy(targets)) = p.minimumInstanceCount
    /\ Len(mismatched) < Len(targets)

(* C2: in terminate, in rolling mode and in old-versions mode, the IDs     *)
(* passed to TerminateInstances leave at least minimumInstanceCount        *)
(* healthy instances of the group unterminated whenever the group started  *)
(* with at least that many healthy instances.                              *)
C2_MainFloorKept ==
    (mode = "main" /\ Done
        /\ Cardinality(HealthyIDs) >= p.minimumInstanceCount) =>
        Cardinality(HealthyIDs \ PassedIDs) >= p.minimumInstanceCount

(* Old-versions mode took as many old instances as the floor allows. *)
C2_Witness ==
    /\ mode = "main" /\ Done /\ p.onlyTerminateOldVersions
    /\ p.minimumInstanceCount >= 1
    /\ Len(calls) = 1 /\ calls[1].ids # <<>>
    /\ Cardinality(HealthyIDs \ PassedIDs) = p.minimumInstanceCount

(* C3: for 0 <= minimumInstanceCount <= len(group.Instances) the list      *)
(* GetTargetInstances returns holds no ID twice and has at most            *)
(* len(group.Instances) - minimumInstanceCount entries.                    *)
C3_NoDuplicatesAndCapped ==
    (mode = "canonical" /\ Done
        /\ p.minimumInstanceCount <= Len(group.Instances)) =>
        /\ NoDuplicates(targets)
        /\ Len(targets) <= Len(group.Instances) - p.minimumInstanceCount

(* A mismatched instance is also a surplus healthy one, and the list is    *)
(* as long as the cap allows.                                              *)
C3_Witness ==
    /\ mode = "canonical" /\ Done /\ branch = "selected"
    /\ Len(targets) = Len(group.Instances) - p.minimumInstanceCount
    /\ \E i \in DOMAIN mismatched :
          \E k \in 1..(Cardinality(HealthyIDs) - p.minimumInstanceCount) :
              mismatched[i] = NthID(p.minimumInstanceCount + k, TRUE)

(* C4: the safety gate. Whenever the group has at most                     *)
(* minimumInstanceCount healthy instances the selection is empty and no    *)
(* instance of the group is passed to TerminateInstances, in rolling,      *)
(* old-versions and canonical-version mode.                                *)
C4_SafetyGate ==
    (Done /\ Cardinality(HealthyIDs) <= p.minimumInstanceCount) =>
        /\ targets = <<>>
        /\ PassedIDs \cap InstanceIDs = {}
        /\ calls = <<>>

(* Rolling mode, not a dry run, as many healthy instances as the floor     *)
(* and an unhealthy one that is left alone.                                *)
C4_Witness ==
    /\ mode = "main" /\ Done /\ ~p.onlyTerminateOldVersions /\ ~p.isDryRun
    /\ p.minimumInstanceCount >= 1
    /\ Cardinality(HealthyIDs) = p.minimumInstanceCount
    /\ UnhealthyIDs # {}
    /\ branch = "notEnoughHealthy"

(* C5: rolling mode. With more healthy instances than the floor the list   *)
(* passed to TerminateInstances is the healthy instances after the first   *)
(* minimumInstanceCount, in their order, followed by all the unhealthy     *)
(* instances, in their order; A, B healthy and C unhealthy give [A, B, C]  *)
(* for floor 0 and [B, C] for floor 1.                                     *)
C5_RollingResult ==
    (mode = "main" /\ Done /\ ~p.onlyTerminateOldVersions
        /\ Cardinality(HealthyIDs) > p.minimumInstanceCount) =>
        LET surplus == Cardinality(HealthyIDs) - p.minimumInstanceCount
            others  == Cardinality(UnhealthyIDs)
        IN  /\ Len(targets) = surplus + others
            /\ \A k \in 1..surplus :
                  targets[k] = NthID(p.minimumInstanceCount + k, TRUE)
            /\ \A k \in 1..others :
                  targets[surplus + k] = NthID(k, FALSE)
            /\ \A i \in DOMAIN calls : calls[i].ids = targets
            /\ ~p.isDryRun => Len(calls) = 1
            /\ (HealthPattern = <<TRUE, TRUE, FALSE>>
                  /\ p.minimumInstanceCount = 0) => targets = <<"A", "B", "C">>
            /\ (HealthPattern = <<TRUE, TRUE, FALSE>>
                  /\ p.minimumInstanceCount = 1) => targets = <<"B", "C">>

C5_Witness ==
    /\ mode = "main" /\ Done /\ ~p.onlyTerminateOldVersions /\ ~p.isDryRun
    /\ HealthPattern = <<TRUE, TRUE, FALSE>>
    /\ p.minimumInstanceCount = 1
    /\ Len(calls) = 1 /\ calls[1].ids = <<"B", "C">>

(* C6, as the claim has it: past the safety gate GetTargetInstances        *)
(* abstains if and only if the group has an unhealthy instance AND the     *)
(* number of version details differs from the number of healthy instances. *)
C6_AbstainsIffBoth ==
    (mode = "canonical" /\ Done /\ branch # "notEnoughHealthy") =>
        ( branch = "abstained" <=>
            ( UnhealthyIDs # {}
              /\ Len(group.InstanceDetails) # Cardinality(HealthyIDs) ) )

(* C6, amended: past the safety gate GetTargetInstances abstains if and    *)
(* only if the group has an unhealthy instance OR the number of version    *)
(* details differs from the number of healthy instances; in every other    *)
(* case it goes on to compute the mismatched set.                          *)
C6_AbstainsIffEither ==
    (mode = "canonical" /\ Done /\ branch # "notEnoughHealthy") =>
        /\ branch = "abstained" <=>
              ( UnhealthyIDs # {}
                \/ Len(group.InstanceDetails) # Cardinality(HealthyIDs) )
        /\ branch # "abstained" => branch \in {"noMismatch", "selected"}

(* It abstains with every instance healthy, for a missing detail alone. *)
C6_Witness ==
    /\ mode = "canonical" /\ Done /\ branch = "abstained"
    /\ UnhealthyIDs = {}
    /\ Len(group.InstanceDetails) < Cardinality(HealthyIDs)

(* C7: in canonical-version mode a group with an unhealthy instance is     *)
(* ignored: none of its instances is terminated, even when version details *)
(* are known for every instance.                                           *)
C7_UnhealthyGroupIgnored ==
    (mode = "canonical" /\ Done /\ UnhealthyIDs # {}) =>
        /\ targets = <<>>
        /\ calls = <<>>
        /\ terminatedInstances = <<>>

(* Details for every instance, a healthy one off the canonical version,    *)
(* more healthy instances than the floor, not a dry run.                   *)
C7_Witness ==
    /\ mode = "canonical" /\ Done /\ ~p.isDryRun
    /\ UnhealthyIDs # {}
    /\ Cardinality(HealthyIDs) > p.minimumInstanceCount
    /\ { group.InstanceDetails[i].ID : i \in DOMAIN group.InstanceDetails }
           = InstanceIDs
    /\ \E i \in DOMAIN group.InstanceDetails :
          /\ group.InstanceDetails[i].ID \in HealthyIDs
          /\ group.InstanceDetails[i].VersionNumber # p.canonical
    /\ calls = <<>>

(* C8: an ID is in the mismatched set exactly when the version detail      *)
(* carrying that ID is strictly lower or strictly higher than the          *)
(* canonical version, for any order of group.InstanceDetails relative to   *)
(* group.Instances.                                                        *)
C8_MismatchedByID ==
    (mode = "canonical" /\ Done /\ branch \in {"noMismatch", "selected"}) =>
        Range(mismatched) =
            { group.InstanceDetails[i].ID :
                i \in { k \in DOMAIN group.InstanceDetails :
                          \/ LT(group.InstanceDetails[k].VersionNumber, p.canonical)
                          \/ GT(group.InstanceDetails[k].VersionNumber, p.canonical) } }

(* Scenario D: three healthy instances A=1.0.0, B=1.1.0, C=1.1.0, details  *)
(* in instance order, canonical version 1.1.0, minimumInstanceCount 1.     *)
ScenarioD ==
    /\ mode = "canonical" /\ Done
    /\ HealthPattern = <<TRUE, TRUE, TRUE>>
    /\ DetailPairs = << <<"A", V100>>, <<"B", V110>>, <<"C", V110>> >>
    /\ p.canonical = V110
    /\ p.minimumInstanceCount = 1

(* C9, as the claim has it: in scenario D GetTargetInstances returns       *)
(* exactly [A].                                                            *)
C9_ScenarioDReturnsA == ScenarioD => targets = <<"A">>

(* C9, amended: in scenario D GetTargetInstances returns exactly [A, B],   *)
(* the mismatched A and then the surplus healthy B, cut at the cap 2.      *)
C9_ScenarioDReturnsAB ==
    ScenarioD => (targets = <<"A", "B">> /\ mismatched = <<"A">>)

C9_Witness == ScenarioD /\ branch = "selected"

(* C10: if every version detail of the group equals the canonical version  *)
(* GetTargetInstances returns an empty list and the group is left alone,   *)
(* even with more healthy instances than minimumInstanceCount.             *)
C10_AllCanonicalLeftAlone ==
    (mode = "canonical" /\ Done
        /\ \A i \in DOMAIN group.InstanceDetails :
              group.InstanceDetails[i].VersionNumber = p.canonical) =>
        /\ targets = <<>>
        /\ calls = <<>>

(* Every instance healthy and on the canonical version, more of them than  *)
(* the floor, not a dry run.                                               *)
C10_Witness ==
    /\ mode = "canonical" /\ Done /\ ~p.isDryRun
    /\ UnhealthyIDs = {}
    /\ Len(group.InstanceDetails) = Len(group.Instances)
    /\ Cardinality(HealthyIDs) > p.minimumInstanceCount
    /\ \A i \in DOMAIN group.InstanceDetails :
          group.InstanceDetails[i].VersionNumber = p.canonical
    /\ branch = "noMismatch"
    /\ targets = <<>>

-----------------------------------------------------------------------------
(* The smaller of two numbers. *)
Min(a, b) == IF a <= b THEN a ELSE b

(* The surplus healthy instances: the healthy ones after the first         *)
(* minimumInstanceCount, in the group's order.                             *)
SurplusIDs ==
    [ k \in 1..(Cardinality(HealthyIDs) - p.minimumInstanceCount) |->
        NthID(p.minimumInstanceCount + k, TRUE) ]

(* The candidates in priority order: the mismatched IDs, then the surplus  *)
(* healthy IDs that are not mismatched.                                    *)
CandidatesInOrder ==
    LET NotMismatched(id) == id \notin Range(mismatched)
    IN  mismatched \o SelectSeq(SurplusIDs, NotMismatched)

(* C11: cap and priority order in canonical-version mode. The returned     *)
(* list is the first min(n, len(group.Instances) - minimumInstanceCount)   *)
(* entries of the candidate sequence of length n in which every mismatched *)
(* ID precedes every surplus healthy ID that is not mismatched.            *)
C11_CapKeepsMismatchedFirst ==
    (mode = "canonical" /\ Done /\ branch = "selected") =>
        LET n == Len(CandidatesInOrder)
            most == Min(n, Len(group.Instances) - p.minimumInstanceCount)
        IN  /\ NoDuplicates(CandidatesInOrder)
            /\ targets = SubSeq(CandidatesInOrder, 1, most)
            /\ \A i, j \in DOMAIN targets :
                  (i < j /\ targets[j] \in Range(mismatched))
                      => targets[i] \in Range(mismatched)

(* The cap cut the candidates and a surplus instance that is not           *)
(* mismatched made it into the list behind the mismatched one.             *)
C11_Witness ==
    /\ mode = "canonical" /\ Done /\ branch = "selected"
    /\ Len(targets) < Len(CandidatesInOrder)
    /\ Range(mismatched) \subseteq Range(targets)
    /\ Range(targets) \ Range(mismatched) # {}

(* C12: dry run. With isDryRun set TerminateInstances is never invoked,    *)
(* whatever was selected, and the returned list of terminated instances    *)
(* is empty.                                                               *)
C12_DryRunCallsNothing ==
    (Done /\ p.isDryRun) => (calls = <<>> /\ terminatedInstances = <<>>)

(* A dry run of Terminate that selected instances. *)
C12_Witness ==
    /\ mode = "canonical" /\ Done /\ p.isDryRun
    /\ targets # <<>>
    /\ calls = <<>>

(* C14: terminate (main.go) returns the terminated instances: an ID is in  *)
(* the returned list only if the TerminateInstances call that carried it   *)
(* returned no error.                                                      *)
C14_ReturnedOnlyIfCallSucceeded ==
    (mode = "main" /\ Done) =>
        \A i \in DOMAIN terminatedInstances :
            \E c \in DOMAIN calls :
                /\ ~calls[c].err
                /\ terminatedInstances[i] \in Range(calls[c].ids)

-----------------------------------------------------------------------------
(* The calls of filterByName. *)

GroupNames == {"web", "Web", "api"}

FilterNames == {"web", "WEB", "api", "db"}

SeqsUpTo(S, n) == UNION { [1..len -> S] : len \in 0..n }

(* Lists of groups: no two groups of a list have the same name. *)
NamedGroupLists ==
    { [ k \in DOMAIN names |-> [ Name |-> names[k] ] ] :
        names \in { ns \in SeqsUpTo(GroupNames, MaxGroups) : NoDuplicates(ns) } }

FnInit(fn) ==
    /\ mode = fn
    /\ pc = "call"
    /\ group = <<>>
    /\ cloud = <<>>
    /\ p = <<>>
    /\ targets = <<>>
    /\ branch = "none"
    /\ mismatched = <<>>
    /\ calls = <<>>
    /\ terminatedInstances = <<>>
    /\ NoLoop
    /\ ret = <<>>

InitFilter ==
    /\ FnInit("filterByName")
    /\ \E grps \in NamedGroupLists, names \in SeqsUpTo(FilterNames, MaxFilter) :
          arg = [ grps |-> grps, namesToInclude |-> names ]

fnUnchanged ==
    UNCHANGED <<mode, group, cloud, p, targets, branch, mismatched, calls,
                terminatedInstances, loopVars, arg>>

CallFilterByName ==
    /\ mode = "filterByName"
    /\ pc = "call"
    /\ ret' = filterByName(arg.grps, arg.namesToInclude)
    /\ pc' = "returned"
    /\ fnUnchanged

SpecFilter == InitFilter /\ [][CallFilterByName]_vars

-----------------------------------------------------------------------------
(* The calls of sort.Sort on InstanceDetails and of getOldestVersions. *)

ReportedVersions == {V000Pre, V099, V100, V110}

DetailLists(most) ==
    UNION { { [ i \in 1..n |-> [ ID            |-> IDs[i],
                                 VersionNumber |-> versions[i],
                                 LaunchTime    |-> times[i] ] ] :
                versions \in [1..n -> ReportedVersions],
                times \in [1..n -> 0..MaxTime] } :
            n \in 0..most }

InitSort ==
    /\ FnInit("sort.Sort")
    /\ arg \in DetailLists(MaxDetails)

CallSort ==
    /\ mode = "sort.Sort"
    /\ pc = "call"
    /\ ret' = Sort(arg)
    /\ pc' = "returned"
    /\ fnUnchanged

SpecSort == InitSort /\ [][CallSort]_vars

InitOldest ==
    /\ FnInit("getOldestVersions")
    /\ \E details \in DetailLists(MaxDetails),
          maximumOldVersions \in (0 - 1)..MaxCap :
          arg = [ details |-> details, maximumOldVersions |-> maximumOldVersions ]

CallGetOldestVersions ==
    /\ mode = "getOldestVersions"
    /\ pc = "call"
    /\ ret' = getOldestVersions(arg.details, arg.maximumOldVersions)
    /\ pc' = "returned"
    /\ fnUnchanged

SpecOldest == InitOldest /\ [][CallGetOldestVersions]_vars

(* The calls of takeAtMost. *)
InitTake ==
    /\ FnInit("takeAtMost")
    /\ \E details \in DetailLists(MaxDetails), most \in (0 - 1)..MaxCap :
          arg = [ details |-> details, most |-> most ]

CallTakeAtMost ==
    /\ mode = "takeAtMost"
    /\ pc = "call"
    /\ ret' = takeAtMost(arg.details, arg.most)
    /\ pc' = "returned"
    /\ fnUnchanged

SpecTake == InitTake /\ [][CallTakeAtMost]_vars

(* The calls of categoriseInstances and of Instance.IsHealthy, on instances *)
(* whose status words come in either case.                                 *)
HealthStatuses == {"Healthy", "HEALTHY", "Unhealthy"}

LifecycleStates == {"InService", "INSERVICE", "OutOfService"}

InstanceLists ==
    UNION { { [ i \in 1..n |-> [ ID             |-> IDs[i],
                                 HealthStatus   |-> hs[i],
                                 LifecycleState |-> ls[i] ] ] :
                hs \in [1..n -> HealthStatuses],
                ls \in [1..n -> LifecycleStates] } :
            n \in 0..MaxInstances }

InitCategorise ==
    /\ FnInit("categoriseInstances")
    /\ arg \in InstanceLists

CallCategoriseInstances ==
    /\ mode = "categoriseInstances"
    /\ pc = "call"
    /\ ret' = categoriseInstances(arg)
    /\ pc' = "returned"
    /\ fnUnchanged

SpecCategorise == InitCategorise /\ [][CallCategoriseInstances]_vars

InitHealthy ==
    /\ FnInit("IsHealthy")
    /\ arg \in InstanceLists

(* IsHealthy asked of every instance of a list, in turn. *)
CallIsHealthy ==
    /\ mode = "IsHealthy"
    /\ pc = "call"
    /\ ret' = [ idx \in DOMAIN arg |-> IsHealthy(arg[idx]) ]
    /\ pc' = "returned"
    /\ fnUnchanged

SpecHealthy == InitHealthy /\ [][CallIsHealthy]_vars

(* The calls of getDetails: the instances asked about and what the cloud   *)
(* answers for each.                                                       *)
InitDetails ==
    /\ mode = "getDetails"
    /\ pc = "call"
    /\ p = <<>>
    /\ targets = <<>>
    /\ branch = "none"
    /\ mismatched = <<>>
    /\ calls = <<>>
    /\ terminatedInstances = <<>>
    /\ NoLoop
    /\ NoFn
    /\ \E n \in 0..MaxInstances :
          /\ group = [ Name |-> "Group1",
                       Instances |-> [ i \in 1..n |->
                                         [ ID             |-> IDs[i],
                                           HealthStatus   |-> "Healthy",
                                           LifecycleState |-> "InService" ] ],
                       InstanceDetails |-> <<>> ]
          /\ cloud \in [1..n -> Answers]

CallGetDetails ==
    /\ mode = "getDetails"
    /\ pc = "call"
    /\ ret' = getDetails(group.Instances)
    /\ pc' = "returned"
    /\ fnUnchanged

SpecDetails == InitDetails /\ [][CallGetDetails]_vars

(* The calls of GetTargetInstances, the variant without the abstention     *)
(* check.                                                                  *)
InitTargets004 ==
    /\ mode = "GetTargetInstances004"
    /\ pc = "call"
    /\ targets = <<>>
    /\ branch = "none"
    /\ mismatched = <<>>
    /\ calls = <<>>
    /\ terminatedInstances = <<>>
    /\ NoLoop
    /\ NoFn
    /\ \E n \in 0..MaxInstances, min \in 0..MaxMin :
         \E instances \in InstancesOfLen(n), d \in DetailsFor(n),
            canonical \in DetailVersions :
              /\ cloud = [ i \in 1..n |-> NoAnswer ]
              /\ group = [ Name |-> "Group1", Instances |-> instances,
                           InstanceDetails |-> d ]
              /\ p = [ minimumInstanceCount     |-> min,
                       isDryRun                 |-> FALSE,
                       canonical                |-> canonical,
                       onlyTerminateOldVersions |-> FALSE ]

CallGetTargetInstances004 ==
    /\ mode = "GetTargetInstances004"
    /\ pc = "call"
    /\ LET r == GetTargetInstances004(group, p.canonical, p.minimumInstanceCount)
       IN  /\ targets' = r.ids
           /\ branch' = r.branch
           /\ mismatched' = r.mismatched
    /\ pc' = "returned"
    /\ UNCHANGED <<mode, group, cloud, p, calls, terminatedInstances,
                   loopVars, fnVars>>

SpecTargets004 == InitTargets004 /\ [][CallGetTargetInstances004]_vars

-----------------------------------------------------------------------------
(* package main, asgparams.go: the flag that holds the group names. A      *)
(* string is the sequence of its characters.                               *)

Comma == ","

Chars == {"a", "b", Comma}

(* strings.Split(value, ","): the fields between the commas; a value       *)
(* without a comma, the empty one included, is one field.                  *)
RECURSIVE SplitFrom(_, _, _)
SplitFrom(rest, field, fields) ==
    IF rest = <<>> THEN Append(fields, field)
    ELSE IF Head(rest) = Comma
         THEN SplitFrom(Tail(rest), <<>>, Append(fields, field))
         ELSE SplitFrom(Tail(rest), Append(field, Head(rest)), fields)

Split(value) == SplitFrom(value, <<>>, <<>>)

(* strings.Join(a, ","). *)
RECURSIVE Join_NoSeparator(_)
Join_NoSeparator(a) ==
    IF a = <<>> THEN <<>> ELSE Head(a) \o Join_NoSeparator(Tail(a))

RECURSIVE Join(_)
Join(a) ==
    IF a = <<>> THEN <<>>
    ELSE IF Len(a) = 1 THEN a[1]
    ELSE a[1] \o <<Comma>> \o Join(Tail(a))

AlreadySet == "autoScalingGroups flag already set"

(* AsgParams.Set: the list after the call and the error returned. *)
AsgSet_NoGuard(a, value) == [a |-> a \o Split(value), err |-> "nil"]

AsgSet(a, value) ==
    IF Len(a) > 0
    THEN [a |-> a, err |-> AlreadySet]
    ELSE [a |-> a \o Split(value), err |-> "nil"]

(* ret holds the flag: the list a, the error of the last Set, the answer   *)
(* of the last String() asked since that Set, and how many Sets were made  *)
(* and how many of them returned no error; arg is the value of the last    *)
(* Set that returned no error.                                             *)
InitAsg ==
    /\ mode = "AsgParams"
    /\ pc = "call"
    /\ group = <<>>
    /\ cloud = <<>>
    /\ p = <<>>
    /\ targets = <<>>
    /\ branch = "none"
    /\ mismatched = <<>>
    /\ calls = <<>>
    /\ terminatedInstances = <<>>
    /\ NoLoop
    /\ arg = <<>>
    /\ ret = [ a |-> <<>>, err |-> "nil", str |-> <<>>, asked |-> FALSE,
               sets |-> 0, succeeded |-> 0 ]

asgUnchanged ==
    UNCHANGED <<mode, pc, group, cloud, p, targets, branch, mismatched, calls,
                terminatedInstances, loopVars>>

Set ==
    /\ mode = "AsgParams"
    /\ ret.sets < MaxSets
    /\ \E value \in SeqsUpTo(Chars, MaxValueLen) :
          LET r == AsgSet(ret.a, value)
          IN  /\ arg' = IF r.err = "nil" THEN value ELSE arg
              /\ ret' = [ a |-> r.a, err |-> r.err, str |-> <<>>,
                          asked |-> FALSE, sets |-> ret.sets + 1,
                          succeeded |-> ret.succeeded +
                                        (IF r.err = "nil" THEN 1 ELSE 0) ]
    /\ asgUnchanged

String ==
    /\ mode = "AsgParams"
    /\ ~ret.asked
    /\ ret' = [ret EXCEPT !.str = Join(ret.a), !.asked = TRUE]
    /\ UNCHANGED arg
    /\ asgUnchanged

NextAsg == Set \/ String

SpecAsg == InitAsg /\ [][NextAsg]_vars

-----------------------------------------------------------------------------
(* The IDs of the calls that returned no error, in the order of the calls. *)
RECURSIVE SucceededIDs(_)
SucceededIDs(cs) ==
    IF cs = <<>> THEN <<>>
    ELSE (IF Head(cs).err THEN <<>> ELSE Head(cs).ids) \o SucceededIDs(Tail(cs))

Returned == pc = "returned" /\ gi > 0

(* C13: a failed termination is isolated. When TerminateInstances returns  *)
(* an error for a group none of that group's IDs are added to the returned *)
(* list, every later group is still processed, and the returned list is    *)
(* the concatenation, in group order, of the targets of exactly the groups *)
(* whose call succeeded.                                                   *)
C13_FailureIsolatedPerGroup ==
    Returned =>
        /\ Len(groupTargets) = Len(groups)
        /\ \A k \in DOMAIN groups :
              (groupTargets[k] # <<>> /\ ~p.isDryRun) =>
                  \E c \in DOMAIN calls :
                      calls[c].g = k /\ calls[c].ids = groupTargets[k]
        /\ \A c, d \in DOMAIN calls : c < d => calls[c].g < calls[d].g
        /\ \A c \in DOMAIN calls :
              /\ calls[c].ids = groupTargets[calls[c].g]
              /\ calls[c].err =>
                    Range(calls[c].ids) \cap Range(terminatedInstances) = {}
        /\ terminatedInstances = SucceededIDs(calls)

(* The call for the first group failed and the call for a later group      *)
(* succeeded.                                                              *)
C13_Witness ==
    /\ Returned
    /\ Len(calls) >= 2
    /\ calls[1].err /\ calls[1].g = 1
    /\ ~calls[2].err
    /\ terminatedInstances = calls[2].ids

-----------------------------------------------------------------------------
FilterReturned == mode = "filterByName" /\ pc = "returned"

(* The place of a group in the list given to filterByName. *)
PlaceOf(g) == CHOOSE k \in DOMAIN arg.grps : arg.grps[k] = g

MatchesSome(g) ==
    \E n \in DOMAIN arg.namesToInclude :
        EqualFold(g.Name, arg.namesToInclude[n])

(* C15: with an empty filter filterByName returns all groups unchanged;    *)
(* with a filter, every returned group is one of the given groups whose    *)
(* name matches some entry ignoring case, every given group whose name     *)
(* matches some entry is returned, and the returned groups keep the order  *)
(* of the given ones.                                                      *)
C15_FilterKeepsMatchingInOrder ==
    FilterReturned =>
        IF arg.namesToInclude = <<>>
        THEN ret = arg.grps
        ELSE /\ \A i \in DOMAIN ret :
                    ret[i] \in Range(arg.grps) /\ MatchesSome(ret[i])
             /\ \A k \in DOMAIN arg.grps :
                    MatchesSome(arg.grps[k]) => arg.grps[k] \in Range(ret)
             /\ \A i, j \in DOMAIN ret :
                    i < j => PlaceOf(ret[i]) <= PlaceOf(ret[j])

(* Two groups are kept in their order, the first by a name of the filter   *)
(* in another case, and a third name of the filter matches nothing.        *)
C15_Witness ==
    /\ FilterReturned
    /\ Len(arg.grps) = 2
    /\ arg.namesToInclude # <<>>
    /\ ret = arg.grps
    /\ ret[1].Name \notin Range(arg.namesToInclude)

(* C16: filterByName never returns the same group more than once, even     *)
(* when the filter repeats a name or holds two names that differ only in   *)
(* case.                                                                   *)
C16_NoGroupTwice ==
    FilterReturned => NoDuplicates(ret)

-----------------------------------------------------------------------------
SortReturned == mode = "sort.Sort" /\ pc = "returned"

(* C17: sort.Sort of an InstanceDetails sequence yields, for every input   *)
(* order, a sequence ordered by version ascending and, among equal         *)
(* versions, by launch time ascending.                                     *)
C17_SortedByVersionThenTime ==
    SortReturned =>
        \A i, j \in DOMAIN ret :
            i < j =>
                \/ LT(ret[i].VersionNumber, ret[j].VersionNumber)
                \/ /\ Compare(ret[i].VersionNumber, ret[j].VersionNumber) = 0
                   /\ ret[i].LaunchTime <= ret[j].LaunchTime

OldestReturned ==
    /\ mode = "getOldestVersions"
    /\ pc = "returned"
    /\ arg.maximumOldVersions >= 0

Selected == Range(ret.filtered)

(* The details below the returned highest version that were not selected. *)
OldLeft ==
    { d \in Range(arg.details) :
        LT(d.VersionNumber, ret.highestVersion) /\ d \notin Selected }

(* C18: getOldestVersions removes lower versions before newer ones: no     *)
(* selected instance has a version higher than an instance below the       *)
(* highest version that was not selected, and among equal versions the     *)
(* instance launched earliest is selected first.                           *)
C18_LowerVersionsFirst ==
    OldestReturned =>
        \A sel \in Selected, left \in OldLeft :
            /\ ~GT(sel.VersionNumber, left.VersionNumber)
            /\ Compare(sel.VersionNumber, left.VersionNumber) = 0 =>
                  sel.LaunchTime <= left.LaunchTime

VersionsGiven == { d.VersionNumber : d \in Range(arg.details) }

MaxVersion == CHOOSE v \in VersionsGiven : \A w \in VersionsGiven : ~GT(w, v)

MinVersion == CHOOSE v \in VersionsGiven : \A w \in VersionsGiven : ~LT(w, v)

(* C19: getOldestVersions returns highest equal to the maximum version and *)
(* lowest equal to the minimum version over all given details, with        *)
(* lowest <= highest, and both equal to 0.0.0 when there are no details.   *)
C19_HighestIsMaxLowestIsMin ==
    OldestReturned =>
        /\ ~GT(ret.lowestVersion, ret.highestVersion)
        /\ IF arg.details = <<>>
           THEN ret.highestVersion = ZeroVersion /\ ret.lowestVersion = ZeroVersion
           ELSE ret.highestVersion = MaxVersion /\ ret.lowestVersion = MinVersion

(* The number of details strictly below the highest version given. *)
BelowHighest ==
    Cardinality({ d \in Range(arg.details) : LT(d.VersionNumber, MaxVersion) })

(* C20: getOldestVersions with a cap of zero or more selects exactly       *)
(* min(cap, k) instances, k being the number of details strictly below the *)
(* highest version; it never selects an instance on the highest version    *)
(* and selects nothing when all versions are equal.                        *)
C20_SelectsOnlyBelowHighest ==
    (OldestReturned /\ arg.details # <<>>) =>
        /\ Len(ret.filtered) = Min(arg.maximumOldVersions, BelowHighest)
        /\ \A sel \in Selected : LT(sel.VersionNumber, MaxVersion)
        /\ Cardinality(VersionsGiven) = 1 => ret.filtered = <<>>

-----------------------------------------------------------------------------
TakeReturned == mode = "takeAtMost" /\ pc = "returned"

(* C21: takeAtMost(details, most) returns the first min(len(details),      *)
(* most) elements of details for most >= 0, and for most < 0 an empty      *)
(* selection: a negative cap neither selects everything nor fails.         *)
C21_NegativeCapTakesNothing ==
    TakeReturned =>
        IF arg.most >= 0
        THEN ret = SliceTo(arg.details, Min(Len(arg.details), arg.most))
        ELSE ret = <<>>

-----------------------------------------------------------------------------
OldVersionsDone == Done /\ mode = "main" /\ branch = "oldVersions"

(* The place of an instance in its group, where the cloud's answer for it  *)
(* is kept.                                                                *)
PlaceOfID(id) == CHOOSE i \in DOMAIN group.Instances : group.Instances[i].ID = id

(* The versions the healthy instances of the group report. *)
HealthyVersions ==
    { cloud[i].VersionNumber :
        i \in { k \in DOMAIN group.Instances : isHealthy(group.Instances[k]) } }

(* C22: in old-versions mode of terminate every terminated instance is     *)
(* healthy and runs a version strictly lower than the highest version      *)
(* found among the healthy instances of its group; unhealthy instances are *)
(* never terminated, and at most len(healthy) - minimumInstanceCount       *)
(* instances of the group are terminated.                                  *)
C22_OnlyOldHealthyTerminated ==
    OldVersionsDone =>
        \A c \in DOMAIN calls :
            /\ Len(calls[c].ids) <= Cardinality(HealthyIDs) - p.minimumInstanceCount
            /\ \A id \in Range(calls[c].ids) :
                  /\ id \in HealthyIDs
                  /\ id \notin UnhealthyIDs
                  /\ \E v \in HealthyVersions :
                        LT(cloud[PlaceOfID(id)].VersionNumber, v)

-----------------------------------------------------------------------------
CategoriseReturned == mode = "categoriseInstances" /\ pc = "returned"

(* The place of an instance in the list given to categoriseInstances. *)
PlaceIn(instance) == CHOOSE k \in DOMAIN arg : arg[k] = instance

(* out holds exactly the instances of kept, once each, in the input's order. *)
KeepsInOrder(out, kept) ==
    /\ Range(out) = kept
    /\ NoDuplicates(out)
    /\ \A i, j \in DOMAIN out : i < j => PlaceIn(out[i]) < PlaceIn(out[j])

(* C23: categoriseInstances is a stable partition: every input instance is *)
(* in exactly one of the two outputs, the healthy output holds exactly the *)
(* instances for which IsHealthy is true, each output keeps the input's    *)
(* relative order, and an empty input gives two empty outputs;             *)
(* categorising the same input again gives the same outputs.               *)
C23_StablePartition ==
    CategoriseReturned =>
        /\ KeepsInOrder(ret.healthy, { x \in Range(arg) : IsHealthy(x) })
        /\ KeepsInOrder(ret.other, { x \in Range(arg) : ~IsHealthy(x) })
        /\ Range(ret.healthy) \cap Range(ret.other) = {}
        /\ Range(ret.healthy) \cup Range(ret.other) = Range(arg)
        /\ Len(ret.healthy) + Len(ret.other) = Len(arg)
        /\ arg = <<>> => (ret.healthy = <<>> /\ ret.other = <<>>)
        /\ categoriseInstances(arg) = ret

(* Three instances, the one in the middle unhealthy. *)
C23_Witness ==
    /\ CategoriseReturned
    /\ Len(arg) = 3
    /\ ret.healthy = <<arg[1], arg[3]>>
    /\ ret.other = <<arg[2]>>

HealthyReturned == mode = "IsHealthy" /\ pc = "returned"

(* C24: an instance is healthy if and only if its health status is         *)
(* "Healthy" ignoring case and its lifecycle state is "InService" ignoring *)
(* case; Healthy/OutOfService and Unhealthy/InService are both unhealthy.  *)
C24_HealthyIffBoth ==
    HealthyReturned =>
        \A i \in DOMAIN arg :
            ret[i] = ( /\ ToLower(arg[i].HealthStatus) = "healthy"
                       /\ ToLower(arg[i].LifecycleState) = "inservice" )

(* The three answers: healthy in another case, Healthy but OutOfService,   *)
(* InService but Unhealthy.                                                *)
C24_Witness ==
    /\ HealthyReturned
    /\ Len(arg) = 3
    /\ arg[1].HealthStatus = "HEALTHY" /\ arg[1].LifecycleState = "INSERVICE"
    /\ arg[2].HealthStatus = "Healthy" /\ arg[2].LifecycleState = "OutOfService"
    /\ arg[3].HealthStatus = "Unhealthy" /\ arg[3].LifecycleState = "InService"
    /\ ret = <<TRUE, FALSE, FALSE>>

-----------------------------------------------------------------------------
DetailsReturned == mode = "getDetails" /\ pc = "returned"

(* The instances whose probe answered, in the group's order. *)
Answered(instance) == ~cloud[PlaceOfID(instance.ID)].err

AnsweredDetails ==
    LET answered == SelectSeq(group.Instances, Answered)
    IN  [ i \in DOMAIN answered |-> GetDetail(answered[i].ID).detail ]

(* C25: when the version probe fails for some instances, getDetails omits  *)
(* those instances and still returns the details of all the others,        *)
(* sorted: one failed probe does not discard the details of the instances  *)
(* that answered.                                                          *)
C25_FailedProbesOmitted ==
    DetailsReturned => ret.details = Sort(AnsweredDetails)

-----------------------------------------------------------------------------
(* C26: if the canonical version cannot be parsed as a semantic version,   *)
(* Terminate aborts the run: TerminateInstances is invoked for no group    *)
(* and no terminated IDs are returned.                                     *)
C26_UnparsableCanonicalAborts ==
    (pc # "begin" /\ p.canonical = Unparsable) =>
        /\ pc = "returned"
        /\ groupTargets = <<>>
        /\ calls = <<>>
        /\ terminatedInstances = <<>>

(* A run that is not a dry run, over two groups with instances and no      *)
(* floor, has returned without a call.                                     *)
C26_Witness ==
    /\ pc = "returned"
    /\ p.canonical = Unparsable
    /\ ~p.isDryRun
    /\ p.minimumInstanceCount = 0
    /\ Len(groups) = 2
    /\ \A k \in DOMAIN groups : groups[k].Instances # <<>>
    /\ calls = <<>>
    /\ terminatedInstances = <<>>

-----------------------------------------------------------------------------
AsgMode == mode = "AsgParams"

(* The number of commas of a string. *)
Commas(value) == Cardinality({ i \in DOMAIN value : value[i] = Comma })

(* C27: after Set(value) on an empty list the list holds the               *)
(* comma-separated fields of value in order, and String() returns value    *)
(* unchanged.                                                              *)
C27_SetStringRoundTrip ==
    (AsgMode /\ ret.sets = 1) =>
        /\ Len(ret.a) = Commas(arg) + 1
        /\ \A k \in DOMAIN ret.a : Comma \notin Range(ret.a[k])
        /\ \A k \in DOMAIN ret.a :
              \E from \in 1..(Len(arg) + 1) :
                  /\ SubSeq(arg, from, from + Len(ret.a[k]) - 1) = ret.a[k]
                  /\ Commas(SubSeq(arg, 1, from - 1)) = k - 1
                  /\ from > 1 => arg[from - 1] = Comma
        /\ ret.asked => ret.str = arg

(* "a,b" was set on the empty list: the list is [a, b] and String() gave   *)
(* "a,b".                                                                  *)
C27_Witness ==
    /\ AsgMode
    /\ ret.sets = 1
    /\ arg = <<"a", Comma, "b">>
    /\ ret.a = << <<"a">>, <<"b">> >>
    /\ ret.asked
    /\ ret.str = <<"a", Comma, "b">>

(* C28: the flag is set once: once a Set has succeeded, every later Set    *)
(* returns the error "autoScalingGroups flag already set" and leaves the   *)
(* stored list unchanged.                                                  *)
C28_SetOnce ==
    [][ (AsgMode /\ ret.succeeded >= 1 /\ ret'.sets = ret.sets + 1) =>
            /\ ret'.err = AlreadySet
            /\ ret'.a = ret.a
            /\ ret'.succeeded = ret.succeeded ]_vars

(* The first Set was given the empty string and a second Set was refused. *)
C28_Witness ==
    /\ AsgMode
    /\ ret.sets = 2
    /\ ret.succeeded = 1
    /\ ret.a = << <<>> >>
    /\ ret.err = AlreadySet
    /\ arg = <<>>

-----------------------------------------------------------------------------
(* C29: in old-versions mode of terminate, not a dry run, a group for      *)
(* which no instance is selected (all healthy instances on one version, or *)
(* the version details could not be fetched) is left alone: no             *)
(* TerminateInstances call is made for it, none with an empty list either. *)
C29_NoCallForEmptySelection ==
    (OldVersionsDone /\ ~p.isDryRun /\ targets = <<>>) => calls = <<>>

-----------------------------------------------------------------------------
Targets004Returned == mode = "GetTargetInstances004" /\ pc = "returned"

(* C30: the GetTargetInstances variant without the abstention check also   *)
(* keeps the floor: for every group with more than minimumInstanceCount    *)
(* healthy instances, groups with unhealthy instances included, at least   *)
(* minimumInstanceCount healthy instances are not in the returned list.    *)
C30_FloorKeptWithoutAbstention ==
    (Targets004Returned /\ Cardinality(HealthyIDs) > p.minimumInstanceCount) =>
        Cardinality(HealthyLeftBy(targets)) >= p.minimumInstanceCount

=============================================================================
